---- MODULE Spec2Model ----
(***************************************************************************)
(* Model of the optimization core of the Airbnb Boston listing optimizer:  *)
(*   src/optimizer_scipy.py  optimize_portfolio, generate_efficient_frontier*)
(*   src/optimizer.py        optimize_opt_interview_plan                    *)
(*   src/data.py             compute_covariance_matrix                      *)
(*   src/app.py              one run of the script                          *)
(*                                                                         *)
(* Numbers.  Allocation weights are multiples of 1/WeightGrid, so a weight *)
(* vector is a sequence of integers in 0..WeightGrid and "sum = 1" reads   *)
(* Sum(w) = WeightGrid.  A target is the rational num/den.  The external   *)
(* solvers (scipy's SLSQP, Gurobi) are modelled by their contracts: every  *)
(* outcome the contract allows is a possible outcome of the call.          *)
(***************************************************************************)
EXTENDS Integers, Sequences, FiniteSets, TLC

VARIABLES
    op,        \* the entry point that was called
    pc,        \* "called", "loop", "returned" or "raised"
    args,      \* the arguments of the call
    ret,       \* the value returned (None until the call returns)
    exc,       \* the exception that left the call (None if none)
    k,         \* generate_efficient_frontier: index of the next target
    frontier,  \* generate_efficient_frontier: the list being built
    calls,     \* history: one entry per invocation of scipy's minimize
    page,      \* app.py: the elements the run has displayed, in order
    computed   \* app.py: the results the run has computed after the solve

vars == <<op, pc, args, ret, exc, k, frontier, calls, page, computed>>

---------------------------------------------------------------------------
(* Bounds of the model *)

MaxUnits == 2
WeightGrid == 2
MaxValue == 3
MaxPoints == 3

Variances == {0, 1}

---------------------------------------------------------------------------
(* Python values *)

\* None is the empty tuple and any other value x the tuple <<x>>
None == <<>>
Some(x) == <<x>>

RECURSIVE SumTo(_, _)
SumTo(f, m) == IF m = 0 THEN 0 ELSE f[m] + SumTo(f, m - 1)

\* np.sum(w)
Sum(w) == SumTo(w, Len(w))

\* w @ v
Dot(w, v) == SumTo([i \in 1..Len(w) |-> w[i] * v[i]], Len(w))

\* w @ cov_matrix @ w for cov_matrix = np.diag(c), stored as its diagonal c
Quad(w, c) == SumTo([i \in 1..Len(w) |-> w[i] * w[i] * c[i]], Len(w))

\* np.sqrt, kept symbolic: the root of a radicand
Sqrt(x) == [sqrt_of |-> x]

SeqMin(v) == CHOOSE a \in {v[i] : i \in 1..Len(v)} : \A j \in 1..Len(v) : a <= v[j]
SeqMax(v) == CHOOSE a \in {v[i] : i \in 1..Len(v)} : \A j \in 1..Len(v) : a >= v[j]

---------------------------------------------------------------------------
(* scipy.optimize.minimize(method="SLSQP") by its contract *)

SUCCESS_MESSAGE == "Optimization terminated successfully"
ITERATION_LIMIT == "Iteration limit reached"
INFEASIBLE_MESSAGES ==
    {"Inequality constraints incompatible",
     "Positive directional derivative for linesearch"}

\* The iterates SLSQP may stop at without converging.  It keeps every
\* iterate inside the bounds; the first one is x0 = 1/n clipped to them,
\* a uniform vector.
Iterates(n, lo, hi) == {[i \in 1..n |-> c] : c \in lo..hi}

\* the points inside the bounds
Box(n, lo, hi) == [1..n -> lo..hi]

\* minimize(fun, x0, bounds, constraints, maxiter): the OptimizeResults the
\* call may produce.  fun is the objective and satisfied the conjunction of
\* the constraints, both as functions on the box.  success is reported only
\* at a minimiser of fun over the points of the box that satisfy the
\* constraints; which one, when there are several, is the solver's choice.
minimize(fun, n, lo, hi, satisfied) ==
    LET feasible == {w \in Box(n, lo, hi) : satisfied[w]}
        best == {w \in feasible : \A u \in feasible : fun[w] <= fun[u]}
        stuck == IF feasible = {} THEN INFEASIBLE_MESSAGES ELSE {ITERATION_LIMIT}
    IN  {[x |-> w, success |-> TRUE, message |-> SUCCESS_MESSAGE, fun |-> fun[w]]
            : w \in best}
        \cup
        {[x |-> w, success |-> FALSE, message |-> m, fun |-> fun[w]]
            : w \in Iterates(n, lo, hi), m \in stuck}

---------------------------------------------------------------------------
(* src/optimizer_scipy.py *)

\* constraint_sum["fun"]: np.sum(w) - 1.0
constraint_sum(w) == Sum(w) - WeightGrid

\* mutant: the difference taken the wrong way round
constraint_return_flipped(w, expected_returns, target_return) ==
    WeightGrid * target_return.num - target_return.den * Dot(w, expected_returns)

\* constraint_return["fun"]: w @ expected_returns - target_return
\* (multiplied by WeightGrid * den to stay in the integers)
constraint_return(w, expected_returns, target_return) ==
    target_return.den * Dot(w, expected_returns) - WeightGrid * target_return.num

\* mutant: the statistics computed whether or not the solver succeeded
result_dict_always_stats(result, expected_returns, cov_matrix) ==
    [success |-> result.success,
     message |-> result.message,
     portfolio_return |-> Some(Dot(result.x, expected_returns)),
     portfolio_risk |-> Some(Sqrt(Quad(result.x, cov_matrix))),
     objective_value |-> result.fun]

\* the result dictionary built from an OptimizeResult
result_dict(result, expected_returns, cov_matrix) ==
    [success |-> result.success,
     message |-> result.message,
     portfolio_return |->
         IF result.success THEN Some(Dot(result.x, expected_returns)) ELSE None,
     portfolio_risk |->
         IF result.success THEN Some(Sqrt(Quad(result.x, cov_matrix))) ELSE None,
     objective_value |-> result.fun]

\* mutant: constraint_return left out of the constraints
optimize_portfolio_no_floor(expected_returns, cov_matrix, target_return, min_weight, max_weight) ==
    LET n == Len(expected_returns)
        box == Box(n, min_weight, max_weight)
        results == minimize([w \in box |-> Quad(w, cov_matrix)],
                            n, min_weight, max_weight,
                            [w \in box |-> constraint_sum(w) = 0])
    IN  {[weights |-> r.x, result |-> result_dict(r, expected_returns, cov_matrix)]
            : r \in results}

\* optimize_portfolio: the (weights, result_dict) pairs the call may return
optimize_portfolio(expected_returns, cov_matrix, target_return, min_weight, max_weight) ==
    LET n == Len(expected_returns)
        box == Box(n, min_weight, max_weight)
        results == minimize([w \in box |-> Quad(w, cov_matrix)],
                            n, min_weight, max_weight,
                            [w \in box |-> /\ constraint_sum(w) = 0
                                           /\ constraint_return(w, expected_returns,
                                                                target_return) >= 0])
    IN  {[weights |-> r.x, result |-> result_dict(r, expected_returns, cov_matrix)]
            : r \in results}

\* np.linspace(min_ret, max_ret, n_points)[i], i counted from 1
linspace(min_ret, max_ret, n_points, i) ==
    IF n_points = 1
    THEN [num |-> min_ret, den |-> 1]
    ELSE [num |-> min_ret * (n_points - 1) + (i - 1) * (max_ret - min_ret),
          den |-> n_points - 1]

target_returns(expected_returns, n_points) ==
    [i \in 1..n_points |->
        linspace(SeqMin(expected_returns), SeqMax(expected_returns), n_points, i)]

\* the history entry of one invocation: its target, whether it succeeded
\* and, if it did, what it found
call_record(target_return, r) ==
    [target |-> target_return,
     success |-> r.result.success,
     weights |-> IF r.result.success THEN Some(r.weights) ELSE None,
     portfolio_return |-> r.result.portfolio_return,
     portfolio_risk |-> r.result.portfolio_risk]

---------------------------------------------------------------------------
(* Inputs *)

Vectors(S) == UNION {[1..n -> S] : n \in 1..MaxUnits}

PortfolioInputs ==
    {[expected_returns |-> er, cov_matrix |-> cv, min_weight |-> lo, max_weight |-> hi]
        : er \in Vectors(1..MaxValue), cv \in Vectors(Variances),
          lo \in 0..WeightGrid, hi \in 0..WeightGrid}

\* Valid arguments: one variance per unit and min_weight <= max_weight
\* (scipy rejects lb > ub before solving).  The units are listed by
\* non-increasing expected revenue, the order in which app.py passes them;
\* no operation of the module depends on the order of the units.
ValidPortfolioInputs ==
    {a \in PortfolioInputs :
        /\ Len(a.expected_returns) = Len(a.cov_matrix)
        /\ \A i \in 1..(Len(a.expected_returns) - 1) :
              a.expected_returns[i] >= a.expected_returns[i + 1]
        /\ a.min_weight <= a.max_weight}

Targets == {[num |-> t, den |-> 1] : t \in 0..(MaxValue + 1)}

---------------------------------------------------------------------------
(* One call of optimize_portfolio *)

InitPortfolio ==
    /\ op = "optimize_portfolio"
    /\ pc = "called"
    /\ \E a \in ValidPortfolioInputs, t \in Targets :
          args = [expected_returns |-> a.expected_returns,
                  cov_matrix |-> a.cov_matrix,
                  target_return |-> t,
                  min_weight |-> a.min_weight,
                  max_weight |-> a.max_weight]
    /\ ret = None
    /\ exc = None
    /\ k = 0
    /\ frontier = <<>>
    /\ calls = <<>>
    /\ page = <<>>
    /\ computed = {}

OptimizePortfolio ==
    /\ op = "optimize_portfolio"
    /\ pc = "called"
    /\ \E r \in optimize_portfolio(args.expected_returns, args.cov_matrix,
                                   args.target_return, args.min_weight,
                                   args.max_weight) :
          /\ ret' = r
          /\ calls' = Append(calls, call_record(args.target_return, r))
    /\ pc' = "returned"
    /\ UNCHANGED <<op, args, exc, k, frontier, page, computed>>

NextPortfolio == OptimizePortfolio

SpecPortfolio == InitPortfolio /\ [][NextPortfolio]_vars

---------------------------------------------------------------------------
(* One call of generate_efficient_frontier *)

InitFrontier ==
    /\ op = "generate_efficient_frontier"
    /\ pc = "loop"
    /\ \E a \in ValidPortfolioInputs, n_points \in 0..MaxPoints :
          args = [expected_returns |-> a.expected_returns,
                  cov_matrix |-> a.cov_matrix,
                  n_points |-> n_points,
                  min_weight |-> a.min_weight,
                  max_weight |-> a.max_weight]
    /\ ret = None
    /\ exc = None
    /\ k = 1
    /\ frontier = <<>>
    /\ calls = <<>>
    /\ page = <<>>
    /\ computed = {}

\* the point appended for a successful result
frontier_point(r) ==
    [return |-> r.result.portfolio_return,
     risk |-> r.result.portfolio_risk,
     weights |-> r.weights]

\* mutant: the point appended without looking at success
frontier_append_always(fr, r) == Append(fr, frontier_point(r))

\* the list after the body of the loop has run on result r
frontier_append(fr, r) ==
    IF r.result.success THEN Append(fr, frontier_point(r)) ELSE fr

\* one pass of "for tr in target_returns"
FrontierStep ==
    /\ op = "generate_efficient_frontier"
    /\ pc = "loop"
    /\ k <= args.n_points
    /\ LET tr == target_returns(args.expected_returns, args.n_points)[k]
       IN  \E r \in optimize_portfolio(args.expected_returns, args.cov_matrix, tr,
                                       args.min_weight, args.max_weight) :
              /\ frontier' = frontier_append(frontier, r)
              /\ calls' = Append(calls, call_record(tr, r))
    /\ k' = k + 1
    /\ UNCHANGED <<op, pc, args, ret, exc, page, computed>>

\* "return frontier", once the targets are exhausted
FrontierReturn ==
    /\ op = "generate_efficient_frontier"
    /\ pc = "loop"
    /\ k > args.n_points
    /\ ret' = frontier
    /\ pc' = "returned"
    /\ UNCHANGED <<op, args, exc, k, frontier, calls, page, computed>>

NextFrontier == FrontierStep \/ FrontierReturn

SpecFrontier == InitFrontier /\ [][NextFrontier]_vars

---------------------------------------------------------------------------
(* src/optimizer.py *)

(* Times are counted in eighths of an hour, which binary floating point    *)
(* holds and adds exactly; probabilities and expected values in 1/10000.   *)
(* A summary gives time_used_hours in hundredths of an hour and            *)
(* expected_interviews in thousandths, the digits round() keeps.           *)

MaxJobs == 3
MaxApplications == 2

BaseProbabilities == {1234, 2000}
SalaryScales == {1, 2}
WeeklyHours == {-8, 0, 2, 3, 16, 24}
TimePerApplication == {1, 3, 8}

\* round(x, ndigits) on a value held exactly: x counted in units of which
\* step make one unit of the last digit kept; a tie goes to the even digit
round(x, step) ==
    LET q == x \div step
        r == x % step
    IN  IF 2 * r < step THEN q
        ELSE IF 2 * r > step THEN q + 1
        ELSE IF q % 2 = 0 THEN q ELSE q + 1

\* an hour count in thousandths of an hour
Thousandths(eighths) == 125 * eighths

\* data layer: the base interview probability of each fetched job
compute_base_interview_probability(jobs_df) ==
    [i \in 1..Len(jobs_df) |-> jobs_df[i].base_prob]

\* data layer: expected value = probability x salary scale
compute_expected_interview_value(base_prob, salary_scale) ==
    [i \in 1..Len(base_prob) |-> base_prob[i] * salary_scale[i]]

\* gp.quicksum(coef[i] * apply[i] for i in range(n_jobs))
quicksum(coef, apply) == SumTo([i \in 1..Len(apply) |-> coef[i] * apply[i]], Len(apply))

Ones(n) == [i \in 1..n |-> 1]

\* addConstr(quicksum(apply[i]) <= max_applications)
max_applications_constr(apply, max_applications) ==
    quicksum(Ones(Len(apply)), apply) <= max_applications

\* mutant: the time budget not enforced
weekly_time_budget_dropped(apply, time_per_application, weekly_hours) == TRUE

\* addConstr(quicksum(time_per_application * apply[i]) <= weekly_hours)
weekly_time_budget(apply, time_per_application, weekly_hours) ==
    quicksum([i \in 1..Len(apply) |-> time_per_application], apply) <= weekly_hours

\* mutant: the number of applications maximised, not their expected value
objective_count(apply, expected_value) == quicksum(Ones(Len(apply)), apply)

\* setObjective(quicksum(expected_value[i] * apply[i]), GRB.MAXIMIZE)
objective(apply, expected_value) == quicksum(expected_value, apply)

\* the values of addVars(n_jobs, vtype=GRB.BINARY)
Binary(n) == [1..n -> {0, 1}]

\* model.optimize() by its contract: status OPTIMAL with a maximiser of obj
\* over the assignments that satisfy the constraints, INFEASIBLE if none does
gurobi_optimize(n, constrs, obj) ==
    LET feasible == {a \in Binary(n) : constrs[a]}
        best == {a \in feasible : \A b \in feasible : obj[a] >= obj[b]}
    IN  IF feasible = {}
        THEN {[status |-> "INFEASIBLE", X |-> None]}
        ELSE {[status |-> "OPTIMAL", X |-> Some(a)] : a \in best}

\* lines 82-107: the model built from the arguments, and solved
solve_plan(expected_value, weekly_hours, max_applications, time_per_application) ==
    LET n_jobs == Len(expected_value)
    IN  gurobi_optimize(
            n_jobs,
            [a \in Binary(n_jobs) |->
                /\ max_applications_constr(a, max_applications)
                /\ weekly_time_budget(a, time_per_application, weekly_hours)],
            [a \in Binary(n_jobs) |-> objective(a, expected_value)])

\* the jobs with apply[i].X > 0.5 (none unless the status is OPTIMAL)
chosen(g) ==
    IF g.status = "OPTIMAL"
    THEN {i \in 1..Len(g.X[1]) : 2 * g.X[1][i] > 1}
    ELSE {}

\* the row appended to selected for job i
selected_row(i, base_prob, expected_value) ==
    [job |-> i,
     base_interview_prob |-> round(base_prob[i], 10),
     expected_interview_value |-> round(expected_value[i], 10)]

\* total_expected_interviews after the loop
total_expected_interviews(S, base_prob) ==
    SumTo([i \in 1..Len(base_prob) |-> IF i \in S THEN base_prob[i] ELSE 0],
          Len(base_prob))

\* round(total_time_used, 2)
time_used_hours(S, time_per_application) ==
    round(Thousandths(Cardinality(S) * time_per_application), 10)

\* pd.DataFrame(selected).sort_values(by="expected_interview_value",
\* ascending=False): the rows in any order that is non-increasing in the key
sort_values(rows) ==
    LET n == Cardinality(rows)
    IN  {df \in [1..n -> rows] :
            /\ \A i, j \in 1..n : i # j => df[i] # df[j]
            /\ \A i \in 1..(n - 1) :
                  df[i].expected_interview_value >= df[i + 1].expected_interview_value}

\* the summary dictionary
summary_dict(n_jobs, result_df, S, a, base_prob) ==
    [jobs_considered |-> n_jobs,
     jobs_selected |-> Len(result_df),
     weekly_hours_budget |-> a.weekly_hours,
     time_used_hours |-> time_used_hours(S, a.time_per_application),
     expected_interviews |-> round(total_expected_interviews(S, base_prob), 10)]

JobRows == {[base_prob |-> p, salary_scale |-> sc] : p \in BaseProbabilities, sc \in SalaryScales}

PlanInputs ==
    {[GUROBI_AVAILABLE |-> av, jobs_df |-> jobs, weekly_hours |-> h,
      max_applications |-> m, time_per_application |-> t]
        : av \in BOOLEAN,
          jobs \in UNION {[1..n -> JobRows] : n \in 0..MaxJobs},
          h \in WeeklyHours, m \in 0..MaxApplications, t \in TimePerApplication}

base_prob_of(a) == compute_base_interview_probability(a.jobs_df)

expected_value_of(a) ==
    compute_expected_interview_value(
        base_prob_of(a), [i \in 1..Len(a.jobs_df) |-> a.jobs_df[i].salary_scale])

---------------------------------------------------------------------------
(* One call of optimize_opt_interview_plan *)

InitPlan ==
    /\ op = "optimize_opt_interview_plan"
    /\ pc = "called"
    /\ args \in PlanInputs
    /\ ret = None
    /\ exc = None
    /\ k = 0
    /\ frontier = <<>>
    /\ calls = <<>>
    /\ page = <<>>
    /\ computed = {}

\* line 58-59: Gurobi is not installed
PlanImportError ==
    /\ op = "optimize_opt_interview_plan"
    /\ pc = "called"
    /\ ~args.GUROBI_AVAILABLE
    /\ pc' = "raised"
    /\ exc' = Some("ImportError")
    /\ UNCHANGED <<op, args, ret, k, frontier, calls, page, computed>>

\* lines 64-131 when nothing was selected: pd.DataFrame([]) has no column
\* "expected_interview_value" and sort_values raises KeyError
PlanKeyError ==
    /\ op = "optimize_opt_interview_plan"
    /\ pc = "called"
    /\ args.GUROBI_AVAILABLE
    /\ \E g \in solve_plan(expected_value_of(args), args.weekly_hours,
                           args.max_applications, args.time_per_application) :
          chosen(g) = {}
    /\ pc' = "raised"
    /\ exc' = Some("KeyError")
    /\ UNCHANGED <<op, args, ret, k, frontier, calls, page, computed>>

\* lines 64-144 when at least one job was selected
PlanReturn ==
    /\ op = "optimize_opt_interview_plan"
    /\ pc = "called"
    /\ args.GUROBI_AVAILABLE
    /\ \E g \in solve_plan(expected_value_of(args), args.weekly_hours,
                           args.max_applications, args.time_per_application) :
          LET S == chosen(g)
              rows == {selected_row(i, base_prob_of(args), expected_value_of(args))
                          : i \in S}
          IN  /\ S # {}
              /\ \E result_df \in sort_values(rows) :
                    ret' = [result_df |-> result_df,
                            summary |-> summary_dict(Len(args.jobs_df), result_df, S,
                                                     args, base_prob_of(args))]
    /\ pc' = "returned"
    /\ UNCHANGED <<op, args, exc, k, frontier, calls, page, computed>>

NextPlan == PlanImportError \/ PlanKeyError \/ PlanReturn

SpecPlan == InitPlan /\ [][NextPlan]_vars

---------------------------------------------------------------------------
(* src/data.py: compute_covariance_matrix *)

DaysPerYear == 365
Availabilities == {0, 73, 365}

\* A floating-point value: a rational num/den (den # 0), an infinity or NaN.
\* Arithmetic on the rationals is exact.
Finite(a, b) == [kind |-> "finite", num |-> a, den |-> b]
Inf == [kind |-> "inf", num |-> 0, den |-> 0]
NaN == [kind |-> "nan", num |-> 0, den |-> 0]

\* np.mean(expected_revenue)
np_mean(v) == Finite(Sum(v), Len(v))

\* integer x divided by a float y; numpy divides by zero without raising:
\* 0/0 is nan, x/0 an infinity
np_divide(x, y) ==
    IF y.num = 0
    THEN IF x = 0 THEN NaN ELSE Inf
    ELSE Finite(x * y.den, y.num)

\* float x times the rational risk r; inf * 0 is nan
np_multiply(x, r) ==
    IF x.kind = "nan" THEN NaN
    ELSE IF x.kind = "inf" THEN (IF r.num = 0 THEN NaN ELSE Inf)
    ELSE Finite(x.num * r.num, x.den * r.den)

\* x ** 2
np_square(x) ==
    IF x.kind = "finite" THEN Finite(x.num * x.num, x.den * x.den) ELSE x

\* np.diag(variance)
np_diag(variance) ==
    [i \in 1..Len(variance) |->
        [j \in 1..Len(variance) |-> IF i = j THEN variance[i] ELSE Finite(0, 1)]]

\* compute_revenue_risk: availability_365 / 365
compute_revenue_risk(availability_365) ==
    [i \in 1..Len(availability_365) |-> Finite(availability_365[i], DaysPerYear)]

\* compute_covariance_matrix
compute_covariance_matrix(expected_revenue, risk) ==
    LET mean == np_mean(expected_revenue)
        revenue_scaled == [i \in 1..Len(expected_revenue) |->
                              np_divide(expected_revenue[i], mean)]
        variance == [i \in 1..Len(expected_revenue) |->
                        np_square(np_multiply(revenue_scaled[i], risk[i]))]
    IN  np_diag(variance)

CovarianceInputs ==
    {[expected_revenue |-> er, risk |-> compute_revenue_risk(av)]
        : er \in Vectors(-1..MaxValue), av \in Vectors(Availabilities)}

InitCovariance ==
    /\ op = "compute_covariance_matrix"
    /\ pc = "called"
    /\ args \in {a \in CovarianceInputs : Len(a.expected_revenue) = Len(a.risk)}
    /\ ret = None
    /\ exc = None
    /\ k = 0
    /\ frontier = <<>>
    /\ calls = <<>>
    /\ page = <<>>
    /\ computed = {}

\* the function has no branch and no raise: every call returns
ComputeCovarianceMatrix ==
    /\ op = "compute_covariance_matrix"
    /\ pc = "called"
    /\ ret' = compute_covariance_matrix(args.expected_revenue, args.risk)
    /\ pc' = "returned"
    /\ UNCHANGED <<op, args, exc, k, frontier, calls, page, computed>>

NextCovariance == ComputeCovarianceMatrix

SpecCovariance == InitCovariance /\ [][NextCovariance]_vars

---------------------------------------------------------------------------
(* src/app.py: one run of the script, from line 133 on *)

MaxListings == 2
FRONTIER_POINTS == 20
RiskTolerances == {10, 50, 100}

\* np.percentile(expected_returns, q), linear interpolation between the
\* order statistics; expected_returns is listed by non-increasing value
np_percentile(v, q) ==
    LET n == Len(v)
        asc == [i \in 1..n |-> v[n + 1 - i]]
        pos == q * (n - 1)
        lo == (pos \div 100) + 1
        rem == pos % 100
        hi == IF rem = 0 THEN lo ELSE lo + 1
    IN  [num |-> asc[lo] * (100 - rem) + asc[hi] * rem, den |-> 100]

\* get_portfolio_statistics (src/data.py); the ratio is kept symbolic
get_portfolio_statistics(weights, expected_revenue, cov_matrix) ==
    [return |-> Dot(weights, expected_revenue),
     risk |-> Sqrt(Quad(weights, cov_matrix)),
     variance |-> Quad(weights, cov_matrix),
     sharpe_ratio |-> IF Quad(weights, cov_matrix) > 0
                      THEN <<Dot(weights, expected_revenue),
                             Sqrt(Quad(weights, cov_matrix))>>
                      ELSE <<0>>]

\* compute_risk_contribution (src/data.py): weights * marginal over the
\* portfolio risk, as the numerator over the symbolic root (zeros if the
\* risk is zero)
compute_risk_contribution(weights, cov_matrix) ==
    [i \in 1..Len(weights) |->
        IF Quad(weights, cov_matrix) > 0
        THEN [num |-> weights[i] * cov_matrix[i] * weights[i],
              over |-> Sqrt(Quad(weights, cov_matrix))]
        ELSE [num |-> 0, over |-> Sqrt(1)]]

\* "Allocation %": (weights * 100).round(2), in hundredths of a percent
allocation_percent(weights) ==
    [i \in 1..Len(weights) |-> round(weights[i] * 10000, WeightGrid)]

\* results_df: the listings with "Allocation %" > 0.01, sorted by it,
\* largest first, in any order among equals
results_frames(weights) ==
    LET alloc == allocation_percent(weights)
        kept == {i \in 1..Len(weights) : alloc[i] > 1}
        rows == {[listing |-> i, allocation |-> alloc[i]] : i \in kept}
        n == Cardinality(rows)
    IN  {df \in [1..n -> rows] :
            /\ \A i, j \in 1..n : i # j => df[i] # df[j]
            /\ \A i \in 1..(n - 1) : df[i].allocation >= df[i + 1].allocation}

\* risk_df sorted by "Risk Contribution", largest first
risk_frames(results_df, risk_contrib) ==
    LET rows == {[listing |-> results_df[i].listing,
                  risk_contribution |-> risk_contrib[results_df[i].listing]]
                    : i \in 1..Len(results_df)}
        n == Cardinality(rows)
    IN  {df \in [1..n -> rows] :
            /\ \A i, j \in 1..n : i # j => df[i] # df[j]
            /\ \A i \in 1..(n - 1) :
                  df[i].risk_contribution.num >= df[i + 1].risk_contribution.num}

\* What a run reads: the sidebar widgets and compute_metrics(df_opt).  The
\* slider values are those whose 1 / max_listings is a weight of the grid.
AppInputs ==
    {[optimize_button |-> b, show_frontier |-> sf, max_listings |-> m,
      risk_tolerance |-> q, expected_returns |-> a.expected_returns,
      cov_matrix |-> a.cov_matrix]
        : b \in BOOLEAN, sf \in BOOLEAN,
          m \in {l \in 1..MaxListings : WeightGrid % l = 0},
          q \in RiskTolerances,
          a \in {x \in ValidPortfolioInputs : x.min_weight = 0 /\ x.max_weight = 0}}

\* min_weight = 0.0 and max_weight = 1.0 / max_listings
app_min_weight == 0
app_max_weight(a) == WeightGrid \div a.max_listings

InitApp ==
    /\ op = "app"
    /\ pc = "script"
    /\ args \in AppInputs
    /\ ret = None
    /\ exc = None
    /\ k = 0
    /\ frontier = <<>>
    /\ calls = <<>>
    /\ page = <<>>
    /\ computed = {}

\* the button was not pressed: the block is skipped and the footer shown
AppIdle ==
    /\ op = "app"
    /\ pc = "script"
    /\ ~args.optimize_button
    /\ page' = Append(page, [kind |-> "caption"])
    /\ pc' = "done"
    /\ UNCHANGED <<op, args, ret, exc, k, frontier, calls, computed>>

\* lines 133-136: the heading and st.success("Optimization complete. ...")
AppBanner ==
    /\ op = "app"
    /\ pc = "script"
    /\ args.optimize_button
    /\ page' = page \o <<[kind |-> "markdown"], [kind |-> "success"]>>
    /\ pc' = "banner"
    /\ UNCHANGED <<op, args, ret, exc, k, frontier, calls, computed>>

\* lines 138-158: the bounds, the target and the call of optimize_portfolio
AppOptimize ==
    /\ op = "app"
    /\ pc = "banner"
    /\ LET target_return == np_percentile(args.expected_returns, args.risk_tolerance)
       IN  \E r \in optimize_portfolio(args.expected_returns, args.cov_matrix,
                                       target_return, app_min_weight,
                                       app_max_weight(args)) :
              /\ ret' = r
              /\ calls' = Append(calls, call_record(target_return, r))
    /\ pc' = "optimized"
    /\ UNCHANGED <<op, args, exc, k, frontier, page, computed>>

\* lines 160-162: st.error and st.stop(), which ends the run
AppFail ==
    /\ op = "app"
    /\ pc = "optimized"
    /\ ~ret.result.success
    /\ page' = Append(page, [kind |-> "error"])
    /\ pc' = "stopped"
    /\ UNCHANGED <<op, args, ret, exc, k, frontier, calls, computed>>

\* lines 164-241: the statistics, the recommendations and the risk
\* contributions
AppResults ==
    /\ op = "app"
    /\ pc = "optimized"
    /\ ret.result.success
    /\ LET stats == get_portfolio_statistics(ret.weights, args.expected_returns,
                                             args.cov_matrix)
           risk_contrib == compute_risk_contribution(ret.weights, args.cov_matrix)
       IN  \E results_df \in results_frames(ret.weights) :
           \E risk_df \in risk_frames(results_df, risk_contrib) :
              page' = page \o
                  <<[kind |-> "metrics", revenue |-> stats.return, risk |-> stats.risk,
                     active |-> args.max_listings],
                    [kind |-> "info", candidates |-> Len(args.expected_returns),
                     selected |-> Len(results_df)],
                    [kind |-> "dataframe", rows |-> results_df],
                    [kind |-> "dataframe", rows |-> risk_df]>>
    /\ computed' = computed \cup {"portfolio_stats", "results_df", "risk_contrib"}
    /\ pc' = "results"
    /\ UNCHANGED <<op, args, ret, exc, k, frontier, calls>>

\* whether some target of the sweep can succeed
frontier_can_have_points(a) ==
    \E i \in 1..FRONTIER_POINTS :
        \E r \in optimize_portfolio(a.expected_returns, a.cov_matrix,
                                    target_returns(a.expected_returns, FRONTIER_POINTS)[i],
                                    app_min_weight, app_max_weight(a)) :
            r.result.success

\* lines 246-264: generate_efficient_frontier(n_points=20) and, if the list
\* is not empty, the chart.  The sweep is summarised by whether it found a
\* point; its invocations of the solver are not entered in calls.
AppFrontier ==
    /\ op = "app"
    /\ pc = "results"
    /\ args.show_frontier
    /\ \E found \in BOOLEAN :
          /\ found => frontier_can_have_points(args)
          /\ page' = IF found
                     THEN page \o <<[kind |-> "subheader"], [kind |-> "line_chart"]>>
                     ELSE Append(page, [kind |-> "subheader"])
    /\ computed' = computed \cup {"frontier"}
    /\ pc' = "frontier"
    /\ UNCHANGED <<op, args, ret, exc, k, frontier, calls>>

\* lines 269-273: the footer, reached unless the run was stopped
AppFooter ==
    /\ op = "app"
    /\ \/ pc = "results" /\ ~args.show_frontier
       \/ pc = "frontier"
    /\ page' = Append(page, [kind |-> "caption"])
    /\ pc' = "done"
    /\ UNCHANGED <<op, args, ret, exc, k, frontier, calls, computed>>

NextApp ==
    AppIdle \/ AppBanner \/ AppOptimize \/ AppFail \/ AppResults \/ AppFrontier \/ AppFooter

SpecApp == InitApp /\ [][NextApp]_vars

---------------------------------------------------------------------------
(* Properties of optimize_portfolio *)

Returned(name) == op = name /\ pc = "returned"

NumUnits == Len(args.expected_returns)

\* C1: a result with success = true is feasible: its weights sum to 1, each
\* weight lies in [min_weight, max_weight], and the realized value w.v, which
\* is the reported portfolio_return, is at least target_return.
C1_SuccessIsFeasible ==
    (Returned("optimize_portfolio") /\ ret.result.success) =>
        /\ Sum(ret.weights) = WeightGrid
        /\ \A i \in 1..NumUnits :
              args.min_weight <= ret.weights[i] /\ ret.weights[i] <= args.max_weight
        /\ ret.result.portfolio_return = Some(Dot(ret.weights, args.expected_returns))
        /\ args.target_return.den * Dot(ret.weights, args.expected_returns)
              >= WeightGrid * args.target_return.num

\* a successful call whose cap and whose value floor both bind: two units,
\* max_weight = 1/2, target above the smaller value
C1_Witness ==
    /\ Returned("optimize_portfolio")
    /\ ret.result.success
    /\ NumUnits = 2
    /\ 2 * args.max_weight = WeightGrid
    /\ args.target_return.num > args.expected_returns[2]

\* max_weight * n < 1: the weights cannot sum to 1
CapInfeasible == NumUnits * args.max_weight < WeightGrid

\* the target exceeds the value of every unit
TargetTooHigh ==
    args.target_return.num > args.target_return.den * SeqMax(args.expected_returns)

\* C2 (as stated): with max_weight * n < 1 the call fails with a
\* ConstraintError and the solver is never invoked.
C2_FailsFastBeforeSolve ==
    (op = "optimize_portfolio" /\ pc # "called" /\ CapInfeasible) =>
        /\ exc = Some("ConstraintError")
        /\ calls = <<>>

\* C3: when the constraints cannot be met (max_weight * n < 1, or a target
\* above every value) or the solver stops without converging, the call does
\* not raise: it returns success = false with the solver's message and with
\* portfolio_return and portfolio_risk both None.
C3_FailureIsReturned ==
    (op = "optimize_portfolio" /\ pc # "called") =>
        /\ pc = "returned"
        /\ exc = None
        /\ (CapInfeasible \/ TargetTooHigh) => ~ret.result.success
        /\ ~ret.result.success =>
              /\ ret.result.message \in INFEASIBLE_MESSAGES \cup {ITERATION_LIMIT}
              /\ ret.result.portfolio_return = None
              /\ ret.result.portfolio_risk = None

\* two units capped at less than 1/2 each: the call returned a failure
C3_Witness ==
    /\ Returned("optimize_portfolio")
    /\ NumUnits = 2
    /\ CapInfeasible
    /\ ~ret.result.success
    /\ ret.result.portfolio_return = None

---------------------------------------------------------------------------
(* Properties of generate_efficient_frontier *)

\* the points of the successful calls of a history, in call order
RECURSIVE PointsOf(_)
PointsOf(h) ==
    IF h = <<>> THEN <<>>
    ELSE LET c == h[Len(h)]
             before == PointsOf(SubSeq(h, 1, Len(h) - 1))
         IN  IF c.success
             THEN Append(before, [return |-> c.portfolio_return,
                                  risk |-> c.portfolio_risk,
                                  weights |-> c.weights[1]])
             ELSE before

\* the targets of the successful calls of a history, in call order
RECURSIVE TargetsOf(_)
TargetsOf(h) ==
    IF h = <<>> THEN <<>>
    ELSE LET before == TargetsOf(SubSeq(h, 1, Len(h) - 1))
         IN  IF h[Len(h)].success
             THEN Append(before, h[Len(h)].target)
             ELSE before

\* C8: the allocator is invoked once per target, one after the other, over
\* n_points equally spaced targets from min(v) to max(v) in increasing order;
\* the list holds exactly the points of the successful targets, in target
\* order, so a failed target neither adds a point nor ends the sweep, and
\* the list returned has at most n_points points.
C8_OnePointPerSuccessfulTarget ==
    (op = "generate_efficient_frontier") =>
        LET n == args.n_points
            lo == SeqMin(args.expected_returns)
            hi == SeqMax(args.expected_returns)
        IN  /\ Len(calls) = k - 1
            /\ Len(calls) <= n
            /\ \A j \in 1..Len(calls) :
                  /\ j = 1 => calls[j].target.num = lo * calls[j].target.den
                  /\ j = n /\ n > 1 => calls[j].target.num = hi * calls[j].target.den
                  /\ j > 1 =>
                        /\ calls[j].target.den = calls[1].target.den
                        /\ calls[j].target.num >= calls[j - 1].target.num
                  /\ j > 2 => calls[j].target.num - calls[j - 1].target.num
                                 = calls[2].target.num - calls[1].target.num
            /\ frontier = PointsOf(calls)
            /\ pc = "returned" =>
                  /\ Len(calls) = n
                  /\ ret = frontier
                  /\ Len(ret) <= n

\* a sweep of three targets that returned after a failure followed by a
\* success: one point, from a target after the failed one
C8_Witness ==
    /\ Returned("generate_efficient_frontier")
    /\ args.n_points = 3
    /\ ~calls[1].success
    /\ calls[2].success
    /\ Len(ret) < 3

---------------------------------------------------------------------------
(* Properties of optimize_opt_interview_plan *)

\* the jobs of the returned selection
Selection == {ret.result_df[i].job : i \in 1..Len(ret.result_df)}

\* total cost of the returned selection, in eighths of an hour
SelectionCost == Cardinality(Selection) * args.time_per_application

RECURSIVE SetSum(_, _)
SetSum(f, S) ==
    IF S = {} THEN 0
    ELSE LET i == CHOOSE j \in S : TRUE IN f[i] + SetSum(f, S \ {i})

WithinCapAndBudget ==
    /\ Len(ret.result_df) = Cardinality(Selection)
    /\ Cardinality(Selection) <= args.max_applications
    /\ SelectionCost <= args.weekly_hours

\* C4 (as stated): the returned selection respects cap and budget and
\* time_used_hours equals the total cost of the selection.
C4_TimeUsedIsTotalCost ==
    Returned("optimize_opt_interview_plan") =>
        /\ WithinCapAndBudget
        /\ 10 * ret.summary.time_used_hours = Thousandths(SelectionCost)

\* C4 (amended): the returned selection respects cap and budget and
\* time_used_hours is the total cost rounded to two decimals: it differs
\* from the total cost by at most half a hundredth of an hour.
C4_TimeUsedIsRoundedCost ==
    Returned("optimize_opt_interview_plan") =>
        /\ WithinCapAndBudget
        /\ 10 * ret.summary.time_used_hours - Thousandths(SelectionCost) \in -5..5

\* a returned selection that uses the whole budget and whose cost has a
\* third decimal (one application of 0.375 h in 0.375 h)
C4_Witness ==
    /\ Returned("optimize_opt_interview_plan")
    /\ SelectionCost = args.weekly_hours
    /\ Thousandths(SelectionCost) % 10 # 0

\* C5 (as stated): when no non-empty selection is feasible (budget 0, budget
\* below the cost of one unit, or cap 0) the call returns an empty
\* selection and a summary of 0 selected and 0 used, and does not raise.
C5_EmptySelectionReturned ==
    (/\ op = "optimize_opt_interview_plan"
     /\ pc # "called"
     /\ args.GUROBI_AVAILABLE
     /\ args.weekly_hours >= 0
     /\ args.weekly_hours < args.time_per_application \/ args.max_applications = 0) =>
        /\ pc = "returned"
        /\ exc = None
        /\ Len(ret.result_df) = 0
        /\ ret.summary.jobs_selected = 0
        /\ ret.summary.time_used_hours = 0

C7_TotalIsObjectiveValue ==
    Returned("optimize_opt_interview_plan") =>
        10 * ret.summary.expected_interviews
            - SetSum(expected_value_of(args), Selection) \in -5..5

---------------------------------------------------------------------------
(* Properties of compute_covariance_matrix *)

\* C10 (as stated): a mean that is zero or negative makes the call fail
\* with a NumericError; otherwise it returns the diagonal matrix whose entry
\* i is ((value_i / mean) * risk_i)^2.
C10_NonPositiveMeanRaises ==
    (op = "compute_covariance_matrix" /\ pc # "called") =>
        LET v == args.expected_revenue
            n == Len(v)
        IN  IF Sum(v) <= 0
            THEN pc = "raised" /\ exc = Some("NumericError")
            ELSE /\ pc = "returned"
                 /\ \A i, j \in 1..n :
                       /\ ret[i][j].kind = "finite"
                       /\ i # j => ret[i][j].num = 0
                       /\ i = j =>
                            ret[i][i].num * (Sum(v) * args.risk[i].den)
                                          * (Sum(v) * args.risk[i].den)
                              = ret[i][i].den * (v[i] * n * args.risk[i].num)
                                              * (v[i] * n * args.risk[i].num)

---------------------------------------------------------------------------
(* Properties of the app run *)

Shown(kind) == \E i \in 1..Len(page) : page[i].kind = kind

AllocatorFailed == calls # <<>> /\ ~calls[1].success

\* C11: in a run triggered by the optimize button, a success message is on
\* the page only after the allocator has returned success = true; a run
\* whose allocator result has success = false shows no success message,
\* computes no statistics, table, risk contributions or frontier, and once
\* it has stopped the error is what it reported.
C11_FailedRunShowsOnlyFailure ==
    op = "app" =>
        /\ Shown("success") => (calls # <<>> /\ calls[1].success)
        /\ AllocatorFailed =>
              /\ ~Shown("success")
              /\ computed = {}
              /\ pc \in {"optimized", "stopped"}
              /\ pc = "stopped" => Shown("error")

====
